---------------------------- MODULE Spec2Model ----------------------------
(***************************************************************************)
(* A model of the YouTube Notes API (src/main.py): one FastAPI process, a  *)
(* process-wide asyncpg connection pool, and one table `notes`.            *)
(*                                                                         *)
(* Every handler is a coroutine: get_db_pool, pool.acquire, one SQL        *)
(* statement, release on leaving `async with`.  Each await is one step of  *)
(* the model, so handlers of concurrent requests interleave at exactly     *)
(* the points the event loop can switch at.  A SQL statement is atomic.    *)
(*                                                                         *)
(* Strings are sequences of one-character strings; a timestamp (float) is  *)
(* an integer number of seconds; created_at is the value of the database   *)
(* clock `now` when the row is inserted.                                   *)
(***************************************************************************)
EXTENDS Integers, Sequences, FiniteSets, TLC

(***************************************************************************)
(* Bounds of the model.                                                    *)
(***************************************************************************)
\* rows the SERIAL sequence may hand out
MaxNotes == 2
\* largest value of the database clock
MaxClock == 1
\* concurrent request handlers in SpecPool
MaxRequests == 2
\* distinct video ids a client of SpecRecent annotates
MaxVideos == 21
\* connections one pool hands out at a time (asyncpg's max_size)
MaxPoolSize == 1

(***************************************************************************)
(* Program constants.                                                      *)
(***************************************************************************)
\* video_id VARCHAR(20)
VideoIdLen == 20
\* get_recent_videos: LIMIT 20
RecentLimit == 20

VARIABLES
    DATABASE_URL,   \* os.getenv("DATABASE_URL"): a string, <<>> when absent
    db_pool,        \* the global db_pool: 0 is None, k > 0 the k-th pool made
    pools_created,  \* calls of asyncpg.create_pool that returned a pool
    phase,          \* "starting" | "serving" | "failed": the server process
    holding,        \* the coroutines inside `async with pool.acquire()`
    table,          \* [notes, idx_video_id]: what exists in the database
    notes,          \* the rows of table notes
    next_id,        \* next value of the SERIAL sequence of notes.id
    now,            \* CURRENT_TIMESTAMP
    pc,             \* where each coroutine stands
    req,            \* the request each coroutine handles
    pool,           \* each coroutine's local `pool`
    resp            \* each coroutine's outcome: a return value or an exception

vars == <<DATABASE_URL, db_pool, pools_created, phase, holding, table, notes,
          next_id, now, pc, req, pool, resp>>

store == <<table, notes, next_id>>

(***************************************************************************)
(* Strings.                                                                *)
(***************************************************************************)
Rep(c, n) == [i \in 1..n |-> c]

Str1(c) == <<c>>

\* lower(): the letters of the model's alphabet
ToLower(c) == CASE c = "A" -> "a" [] c = "B" -> "b" [] OTHER -> c

LowerStr(s) == [i \in 1..Len(s) |-> ToLower(s[i])]

(***************************************************************************)
(* The database: what the SQL of src/main.py does to table notes.          *)
(***************************************************************************)
\* Assignment of a string to a VARCHAR(20) column: accepted when it fits,
\* or when everything past the 20th character is a space.
VarcharFits(s) ==
    \A i \in (VideoIdLen + 1)..Len(s) : s[i] = " "

\* The value a VARCHAR(20) column then holds: the first 20 characters.
Varchar(s) ==
    IF Len(s) <= VideoIdLen THEN s ELSE SubSeq(s, 1, VideoIdLen)

\* INSERT INTO notes (video_id, timestamp, note_text) VALUES ($1, $2, $3):
\* id from the sequence, created_at DEFAULT CURRENT_TIMESTAMP.
InsertedRow(v, t, x) ==
    [id |-> next_id, video_id |-> Varchar(v), timestamp |-> t,
     note_text |-> x, created_at |-> now]

\* ORDER BY: K holds <<key, tie, row>> for each row; the rows as a sequence,
\* ascending by key, rows with equal keys in the order of tie (SQL leaves
\* that order open).
OrderBy(K) ==
    LET Before(a, b) == a[1] < b[1] \/ (a[1] = b[1] /\ a[2] < b[2])
        ranked == {<<1 + Cardinality({a \in K : Before(a, b)}), b[3]>> : b \in K}
    IN  [i \in 1..Cardinality(K) |-> (CHOOSE x \in ranked : x[1] = i)[2]]

\* The orders a scan may return rows with equal sort keys in: by id, by id
\* backwards.
Ties == {1, -1}

\* Mutant: the WHERE clause is missing.
SelectByVideoNoWhere(v, tie) ==
    OrderBy({<<r.timestamp, tie * r.id, r>> : r \in notes})

\* Mutant: ORDER BY id instead of timestamp.
SelectByVideoById(v, tie) ==
    OrderBy({<<r.id, tie * r.id, r>> : r \in {n \in notes : n.video_id = v}})

\* SELECT ... FROM notes WHERE video_id = $1 ORDER BY timestamp ASC
SelectByVideo(v, tie) ==
    OrderBy({<<r.timestamp, tie * r.id, r>> :
                r \in {n \in notes : n.video_id = v}})

\* MatchText of LIKE: % matches any run of characters, _ any one character,
\* a backslash makes the next pattern character literal.
RECURSIVE Like(_, _)
Like(t, p) ==
    IF p = <<>> THEN t = <<>>
    ELSE IF p[1] = "%" THEN
        \/ Like(t, Tail(p))
        \/ t # <<>> /\ Like(Tail(t), p)
    ELSE IF p[1] = "_" THEN
        t # <<>> /\ Like(Tail(t), Tail(p))
    ELSE IF p[1] = "\\" THEN
        /\ Len(p) > 1
        /\ t # <<>>
        /\ t[1] = p[2]
        /\ Like(Tail(t), Tail(Tail(p)))
    ELSE
        t # <<>> /\ t[1] = p[1] /\ Like(Tail(t), Tail(p))

\* text ILIKE pattern: LIKE on the lower-cased text and pattern
ILike(t, p) == Like(LowerStr(t), LowerStr(p))

\* f"%{query}%"
SearchPattern(query) == <<"%">> \o query \o <<"%">>

\* SELECT ... FROM notes WHERE note_text ILIKE $1 ORDER BY created_at DESC
SelectByText(query, tie) ==
    OrderBy({<<0 - r.created_at, tie * r.id, r>> :
                r \in {n \in notes : ILike(n.note_text, SearchPattern(query))}})

\* Mutant: DELETE FROM notes, the WHERE clause missing.
DeletedRowsNoWhere(id) == notes

\* The rows DELETE FROM notes WHERE id = $1 removes.
DeletedRows(id) == {n \in notes : n.id = id}

\* Mutant: the UPDATE also sets created_at = CURRENT_TIMESTAMP.
UpdatedRowTouched(n, x) == [n EXCEPT !.note_text = x, !.created_at = now]

\* UPDATE notes SET note_text = $1 WHERE id = $2: the table afterwards.
UpdatedRow(n, x) == [n EXCEPT !.note_text = x]

UpdatedNotes(id, x) ==
    {IF n.id = id THEN UpdatedRow(n, x) ELSE n : n \in notes}

SetMax(S) == CHOOSE m \in S : \A k \in S : k <= m

SetMin(S) == CHOOSE m \in S : \A k \in S : m <= k

\* Mutant: MIN(created_at) as last_note_at.
GroupByVideoMin ==
    {[video_id |-> v,
      note_count |-> Cardinality({n \in notes : n.video_id = v}),
      last_note_at |-> SetMin({n.created_at : n \in {m \in notes : m.video_id = v}})]
     : v \in {n.video_id : n \in notes}}

\* SELECT video_id, COUNT(*), MAX(created_at) FROM notes GROUP BY video_id
GroupByVideo ==
    {[video_id |-> v,
      note_count |-> Cardinality({n \in notes : n.video_id = v}),
      last_note_at |-> SetMax({n.created_at : n \in {m \in notes : m.video_id = v}})]
     : v \in {n.video_id : n \in notes}}

\* LIMIT k
Limit(s, k) == SubSeq(s, 1, IF Len(s) < k THEN Len(s) ELSE k)

\* ... ORDER BY last_note_at DESC LIMIT 20
SelectRecent(tie) ==
    Limit(OrderBy({<<0 - g.last_note_at,
                     tie * SetMin({n.id : n \in {m \in notes : m.video_id = g.video_id}}),
                     g>> : g \in GroupByVideo}),
          RecentLimit)

(***************************************************************************)
(* Coroutines: 0 is startup(), 1..MaxRequests handle requests.             *)
(***************************************************************************)
Startup == 0

Handlers == 1..MaxRequests

Procs == {Startup} \cup Handlers

NoReq == [op |-> "none", video_id |-> <<>>, timestamp |-> 0,
          note_text |-> <<>>, note_id |-> 0, query |-> <<>>]

StartupReq == [NoReq EXCEPT !.op = "startup"]

CreateReq(v, t, x) ==
    [NoReq EXCEPT !.op = "create_note", !.video_id = v, !.timestamp = t,
                  !.note_text = x]

GetReq(v) == [NoReq EXCEPT !.op = "get_notes", !.video_id = v]

SearchReq(q) == [NoReq EXCEPT !.op = "search_notes", !.query = q]

DeleteReq(id) == [NoReq EXCEPT !.op = "delete_note", !.note_id = id]

UpdateReq(id, x) ==
    [NoReq EXCEPT !.op = "update_note", !.note_id = id, !.note_text = x]

RecentReq == [NoReq EXCEPT !.op = "get_recent_videos"]

RootReq == [NoReq EXCEPT !.op = "root"]

NoResp == [status |-> 0, body |-> "none"]

\* a value the handler returns
Ok(body) == [status |-> 200, body |-> body]

\* raise HTTPException(status_code=404, detail="Note not found")
NotFound == [status |-> 404, body |-> "Note not found"]

\* any other exception: the server's generic error response
ServerError(e) == [status |-> 500, body |-> e]

Url == <<"p", "g">>

Init ==
    /\ DATABASE_URL \in {<<>>, Url}
    /\ db_pool = 0
    /\ pools_created = 0
    /\ phase = "starting"
    /\ holding = {}
    /\ table = [notes |-> FALSE, idx_video_id |-> FALSE]
    /\ notes = {}
    /\ next_id = 1
    /\ now = 0
    /\ pc = [p \in Procs |-> IF p = Startup THEN "get_pool" ELSE "idle"]
    /\ req = [p \in Procs |-> IF p = Startup THEN StartupReq ELSE NoReq]
    /\ pool = [p \in Procs |-> 0]
    /\ resp = [p \in Procs |-> NoResp]

\* Coroutine p ends with outcome o.  startup() ending decides whether the
\* server goes on to serve: an exception in a startup event stops it.
Finish(p, o) ==
    /\ pc' = [pc EXCEPT ![p] = "done"]
    /\ resp' = [resp EXCEPT ![p] = o]
    /\ phase' = IF p = Startup
                THEN (IF o.status = 200 THEN "serving" ELSE "failed")
                ELSE phase

\* The server hands a request to a handler once startup has completed.
Accepting == phase = "serving"

\* The create_note requests that have not reached their INSERT yet.
CreatesPending ==
    {q \in Handlers : /\ pc[q] \in {"get_pool", "create_pool", "acquire", "execute"}
                      /\ req[q].op = "create_note"}

\* A handler starts on request r.  The clients send a create_note only
\* while the sequence has ids left under cap for every pending INSERT.
receive(p, r, cap) ==
    /\ Accepting
    /\ pc[p] \in {"idle", "done"}
    /\ r.op = "create_note" => next_id + Cardinality(CreatesPending) <= cap
    /\ pc' = [pc EXCEPT ![p] = IF r.op = "root" THEN "root" ELSE "get_pool"]
    /\ req' = [req EXCEPT ![p] = r]
    /\ resp' = [resp EXCEPT ![p] = NoResp]
    /\ pool' = [pool EXCEPT ![p] = 0]
    /\ UNCHANGED <<DATABASE_URL, db_pool, pools_created, phase, holding,
                   store, now>>

\* Mutant: get_db_pool does not look at DATABASE_URL.
UrlNotChecked == FALSE

\* root: the health check; it touches neither pool nor database
root(p) ==
    /\ pc[p] = "root"
    /\ Finish(p, Ok("YouTube Notes API is running"))
    /\ UNCHANGED <<DATABASE_URL, db_pool, pools_created, holding, store, now,
                   req, pool>>

\* `not DATABASE_URL`
UrlMissing == DATABASE_URL = <<>>

\* get_db_pool up to its await: return the global pool, raise, or go on to
\* create it.
get_db_pool(p) ==
    /\ pc[p] = "get_pool"
    /\ IF db_pool # 0
       THEN /\ pool' = [pool EXCEPT ![p] = db_pool]
            /\ pc' = [pc EXCEPT ![p] = "acquire"]
            /\ UNCHANGED <<resp, phase>>
       ELSE IF UrlMissing
       THEN /\ Finish(p, ServerError("ValueError"))
            /\ UNCHANGED pool
       ELSE /\ pc' = [pc EXCEPT ![p] = "create_pool"]
            /\ UNCHANGED <<pool, resp, phase>>
    /\ UNCHANGED <<DATABASE_URL, db_pool, pools_created, holding, store, now,
                   req>>

\* Mutant: without `global db_pool` the assignment makes a local.
AssignedLocal(new) == db_pool

\* What `db_pool = await asyncpg.create_pool(...)` leaves in the global.
AssignedPool(new) == new

\* asyncpg.create_pool returns: the new pool is assigned to the global and
\* returned.
create_pool(p) ==
    /\ pc[p] = "create_pool"
    /\ pools_created' = pools_created + 1
    /\ db_pool' = AssignedPool(pools_created + 1)
    /\ pool' = [pool EXCEPT ![p] = pools_created + 1]
    /\ pc' = [pc EXCEPT ![p] = "acquire"]
    /\ UNCHANGED <<DATABASE_URL, phase, holding, store, now, req, resp>>

\* asyncpg.create_pool raises: the storage backend is unreachable.
create_pool_fails(p) ==
    /\ pc[p] = "create_pool"
    /\ Finish(p, ServerError("ConnectionError"))
    /\ UNCHANGED <<DATABASE_URL, db_pool, pools_created, holding, store, now,
                   req, pool>>

\* The connections of pool k that are checked out.
CheckedOut(k) == {q \in holding : pool[q] = k}

\* `async with pool.acquire() as conn`: waits while the pool has none free.
acquire(p) ==
    /\ pc[p] = "acquire"
    /\ Cardinality(CheckedOut(pool[p])) < MaxPoolSize
    /\ holding' = holding \cup {p}
    /\ pc' = [pc EXCEPT ![p] = "execute"]
    /\ UNCHANGED <<DATABASE_URL, db_pool, pools_created, phase, store, now,
                   req, pool, resp>>

\* The statement of p has run with outcome o; p is still inside `async with`.
Executed(p, o) ==
    /\ pc' = [pc EXCEPT ![p] = "release"]
    /\ resp' = [resp EXCEPT ![p] = o]
    /\ UNCHANGED <<DATABASE_URL, db_pool, pools_created, phase, holding, now,
                   req, pool>>

Executing(p, op) == pc[p] = "execute" /\ req[p].op = op

\* startup: CREATE TABLE IF NOT EXISTS notes
create_table(p) ==
    /\ Executing(p, "startup")
    /\ table' = [table EXCEPT !.notes = TRUE]
    /\ pc' = [pc EXCEPT ![p] = "execute_index"]
    /\ UNCHANGED <<DATABASE_URL, db_pool, pools_created, phase, holding,
                   notes, next_id, now, req, pool, resp>>

\* startup: CREATE INDEX IF NOT EXISTS idx_video_id
create_index(p) ==
    /\ pc[p] = "execute_index"
    /\ table' = [table EXCEPT !.idx_video_id = TRUE]
    /\ UNCHANGED <<notes, next_id>>
    /\ Executed(p, Ok("started"))

\* create_note: INSERT ... RETURNING the row.  A video_id that does not fit
\* VARCHAR(20) makes the statement fail; the id drawn for the row may or may
\* not be lost with it (the sequence is not rolled back when the row was
\* being built already).
create_note(p) ==
    /\ Executing(p, "create_note")
    /\ UNCHANGED table
    /\ IF VarcharFits(req[p].video_id)
       THEN LET row == InsertedRow(req[p].video_id, req[p].timestamp,
                                   req[p].note_text)
            IN  /\ notes' = notes \cup {row}
                /\ next_id' = next_id + 1
                /\ Executed(p, Ok(row))
       ELSE /\ notes' = notes
            /\ next_id' \in {next_id, next_id + 1}
            /\ Executed(p, ServerError("StringDataRightTruncationError"))

\* get_notes: the rows of the video, by timestamp
get_notes(p) ==
    /\ Executing(p, "get_notes")
    /\ UNCHANGED store
    /\ \E tie \in Ties : Executed(p, Ok(SelectByVideo(req[p].video_id, tie)))

\* search_notes: the rows whose text matches, newest first
search_notes(p) ==
    /\ Executing(p, "search_notes")
    /\ UNCHANGED store
    /\ \E tie \in Ties : Executed(p, Ok(SelectByText(req[p].query, tie)))

\* Mutant: the command tag is never looked at.
DeleteOutcomeAlwaysOk(count) == Ok("Note deleted successfully")

\* What delete_note makes of the command tag "DELETE <count>":
\* `result == "DELETE 0"` raises the 404.
DeleteOutcome(count) ==
    IF count = 0 THEN NotFound ELSE Ok("Note deleted successfully")

\* delete_note: DELETE the row, then look at the command tag
delete_note(p) ==
    /\ Executing(p, "delete_note")
    /\ notes' = notes \ DeletedRows(req[p].note_id)
    /\ UNCHANGED <<table, next_id>>
    /\ Executed(p, DeleteOutcome(Cardinality(DeletedRows(req[p].note_id))))

\* update_note: UPDATE ... RETURNING the row; `not row` raises the 404
update_note(p) ==
    /\ Executing(p, "update_note")
    /\ notes' = UpdatedNotes(req[p].note_id, req[p].note_text)
    /\ UNCHANGED <<table, next_id>>
    /\ LET rows == {n \in notes' : n.id = req[p].note_id}
       IN  Executed(p, IF rows = {} THEN NotFound
                       ELSE Ok(CHOOSE n \in rows : TRUE))

\* get_recent_videos: the 20 most recently annotated videos
get_recent_videos(p) ==
    /\ Executing(p, "get_recent_videos")
    /\ UNCHANGED store
    /\ \E tie \in Ties : Executed(p, Ok(SelectRecent(tie)))

\* A storage failure inside a statement: the exception propagates.
statement_fails(p) ==
    /\ pc[p] \in {"execute", "execute_index"}
    /\ UNCHANGED store
    /\ Executed(p, ServerError("PostgresError"))

\* Mutant: acquire and release by hand, the release skipped by an exception.
ReleasedOnReturn(p) ==
    IF resp[p].status = 200 THEN holding \ {p} ELSE holding

\* The connections out once p has left `async with`, by return or by
\* exception.
Released(p) == holding \ {p}

\* Leaving `async with`: the connection goes back to the pool, then the
\* return value or the exception leaves the handler.
release(p) ==
    /\ pc[p] = "release"
    /\ holding' = Released(p)
    /\ Finish(p, resp[p])
    /\ UNCHANGED <<DATABASE_URL, db_pool, pools_created, store, now, req,
                   pool>>

\* The database clock advances.
Tick ==
    /\ phase = "serving"
    /\ now < MaxClock
    /\ now' = now + 1
    /\ UNCHANGED <<DATABASE_URL, db_pool, pools_created, phase, holding,
                   store, pc, req, pool, resp>>

(***************************************************************************)
(* Requests.                                                               *)
(***************************************************************************)
A20 == Rep("a", VideoIdLen)

VideoIds == {Str1("a"), A20, A20 \o Str1(" "), A20 \o Str1("a")}

Timestamps == {1, 2}

Texts == {<<"a", "b">>, Str1("B")}

Queries == {Str1("A"), Str1("b"), Str1("_")}

\* ids a client may name: those the sequence can have handed out, and one
\* it cannot
NoteIds == 1..(MaxNotes + 1)

\* Listing: notes of several videos and positions, one text.
Requests ==
    {CreateReq(v, t, <<"a", "b">>) : v \in VideoIds, t \in Timestamps}
    \cup {GetReq(v) : v \in VideoIds}
    \cup {DeleteReq(id) : id \in NoteIds}

\* Text: notes of several texts and videos, one position.
TextRequests ==
    {CreateReq(v, 1, x) : v \in {Str1("a"), A20}, x \in Texts}
    \cup {SearchReq(q) : q \in Queries}
    \cup {DeleteReq(id) : id \in NoteIds}
    \cup {UpdateReq(id, x) : id \in NoteIds, x \in Texts}

\* The steps of coroutine p that every handler shares.
Step(p) ==
    \/ get_db_pool(p)
    \/ create_pool(p)
    \/ create_pool_fails(p)
    \/ acquire(p)
    \/ create_table(p)
    \/ create_index(p)
    \/ statement_fails(p)
    \/ release(p)

\* One client, one request at a time: creating, listing and deleting.
Next ==
    \/ \E r \in Requests : receive(1, r, MaxNotes)
    \/ \E p \in {Startup, 1} : Step(p)
    \/ create_note(1)
    \/ get_notes(1)
    \/ delete_note(1)
    \/ Tick

\* One client, one request at a time: creating, searching, updating and
\* deleting.
NextText ==
    \/ \E r \in TextRequests : receive(1, r, MaxNotes)
    \/ \E p \in {Startup, 1} : Step(p)
    \/ create_note(1)
    \/ search_notes(1)
    \/ update_note(1)
    \/ delete_note(1)
    \/ Tick

SpecText == Init /\ [][NextText]_vars

Spec == Init /\ [][Next]_vars

(***************************************************************************)
(* Concurrent requests: the pool and its connections.                      *)
(***************************************************************************)
\* Requests that take every way out of a handler: a row returned, the 404,
\* and (with statement_fails) a storage failure; and the health check.
PoolRequests ==
    {CreateReq(Str1("a"), 1, Str1("B")),
     DeleteReq(1),
     UpdateReq(1, <<"a", "b">>),
     RootReq}

NextPool ==
    \/ \E p \in Handlers, r \in PoolRequests : receive(p, r, MaxNotes)
    \/ \E p \in Procs : Step(p)
    \/ \E p \in Handlers : create_note(p)
    \/ \E p \in Handlers : root(p)
    \/ \E p \in Handlers : delete_note(p)
    \/ \E p \in Handlers : update_note(p)

SpecPool == Init /\ [][NextPool]_vars

(***************************************************************************)
(* Many videos: a client that annotates one new video after another, then  *)
(* the first one again, and asks for the recent videos in between.         *)
(***************************************************************************)
Digits == <<"0", "1", "2", "3", "4", "5", "6", "7", "8", "9">>

\* the k-th video id: two decimal digits
VidOf(k) == <<Digits[(k \div 10) + 1], Digits[(k % 10) + 1]>>

VideosNoted == {n.video_id : n \in notes}

\* the video the client annotates next: a new one while there are new ones,
\* then the first one again
NextVideo ==
    IF Cardinality(VideosNoted) < MaxVideos
    THEN Cardinality(VideosNoted) + 1
    ELSE 1

RecentRequests == {CreateReq(VidOf(NextVideo), 1, Str1("B")), RecentReq}

NextRecent ==
    \/ \E r \in RecentRequests : receive(1, r, MaxVideos + 1)
    \/ \E p \in {Startup, 1} : Step(p)
    \/ create_note(1)
    \/ get_recent_videos(1)
    \/ Tick

SpecRecent == Init /\ [][NextRecent]_vars

(***************************************************************************)
(* Properties.                                                             *)
(***************************************************************************)
\* p's statement runs in this step and is not cut short by a storage failure
Runs(p, op) ==
    /\ Executing(p, op)
    /\ pc'[p] = "release"
    /\ resp'[p] # ServerError("PostgresError")

\* p holds the outcome of a statement of operation op that returned
Returned(p, op) ==
    /\ pc[p] \in {"release", "done"}
    /\ req[p].op = op
    /\ resp[p].status = 200

Range(s) == {s[i] : i \in 1..Len(s)}

\* t contains q as a substring, letter case ignored
ContainsCI(t, q) ==
    \E i \in 1..(Len(t) - Len(q) + 1) :
        SubSeq(LowerStr(t), i, i + Len(q) - 1) = LowerStr(q)

\* C1 as stated: when the store holds no note for video id v and
\* create_note(v, t, x) returns a note, that note has an id >= 1,
\* video_id = v, timestamp = t and note_text = x, and get_notes(v) then
\* returns exactly that note, for every v.
C1_CreateThenListAnyVideo ==
    [][\A p \in Handlers :
         (/\ Runs(p, "create_note")
          /\ resp'[p].status = 200
          /\ {n \in notes : n.video_id = req[p].video_id} = {})
         => LET b == resp'[p].body
            IN  /\ b.id >= 1
                /\ b.video_id = req[p].video_id
                /\ b.timestamp = req[p].timestamp
                /\ b.note_text = req[p].note_text
                /\ \A tie \in Ties :
                     SelectByVideo(req[p].video_id, tie)' = <<b>>]_vars

\* C1, amended: the same for every v of at most 20 characters.
C1_CreateThenList ==
    [][\A p \in Handlers :
         (/\ Runs(p, "create_note")
          /\ resp'[p].status = 200
          /\ Len(req[p].video_id) <= 20
          /\ {n \in notes : n.video_id = req[p].video_id} = {})
         => LET b == resp'[p].body
            IN  /\ b.id >= 1
                /\ b.video_id = req[p].video_id
                /\ b.timestamp = req[p].timestamp
                /\ b.note_text = req[p].note_text
                /\ b.created_at = now
                /\ \A tie \in Ties :
                     SelectByVideo(req[p].video_id, tie)' = <<b>>]_vars

\* create_note has returned the first note of a 20-character video id while
\* another video has a note, and get_notes of that id lists just that note.
C1_Witness ==
    \E p \in Handlers :
        /\ Returned(p, "create_note")
        /\ pc[p] = "release"
        /\ req[p].video_id = A20
        /\ Cardinality(notes) = 2
        /\ \A tie \in Ties : SelectByVideo(A20, tie) = <<resp[p].body>>

\* C2: what get_notes(v) returns is a list of exactly the notes whose
\* video_id is v, each once, in non-decreasing order of timestamp (so the
\* empty list when none matches); get_notes itself raises nothing: the one
\* error it can end with is the storage's.
C2_ListByVideo ==
    \A p \in Handlers :
        /\ Returned(p, "get_notes") =>
             LET b == resp[p].body
             IN  /\ Range(b) = {n \in notes : n.video_id = req[p].video_id}
                 /\ Len(b) = Cardinality(Range(b))
                 /\ \A i \in 1..(Len(b) - 1) :
                      b[i].timestamp <= b[i + 1].timestamp
        /\ (pc[p] \in {"release", "done"} /\ req[p].op = "get_notes")
             => resp[p].status = 200 \/ resp[p] = ServerError("PostgresError")

\* get_notes has returned two notes, the one created later first, and has
\* returned the empty list for another video.
C2_Witness ==
    \E p \in Handlers :
        /\ Returned(p, "get_notes")
        /\ Len(resp[p].body) = 2
        /\ resp[p].body[1].id > resp[p].body[2].id
        /\ resp[p].body[1].timestamp < resp[p].body[2].timestamp

\* C3: what search_notes(q) returns is exactly the notes whose note_text
\* contains q as a case-insensitive substring, newest first, for every q.
C3_SearchIsSubstring ==
    \A p \in Handlers :
        Returned(p, "search_notes") =>
            LET b == resp[p].body
            IN  /\ Range(b) = {n \in notes : ContainsCI(n.note_text, req[p].query)}
                /\ Len(b) = Cardinality(Range(b))
                /\ \A i \in 1..(Len(b) - 1) :
                     b[i].created_at >= b[i + 1].created_at

\* C4: update_note(id, new_text) on an existing note returns that note with
\* note_text = new_text and everything else as it was, and changes no other
\* note; and in every step of any operation a note that stays in the store
\* keeps its id, video_id, timestamp and created_at, while a note that
\* enters it gets an id the sequence never handed out before.
C4_UpdateFrame ==
    [][/\ \A p \in Handlers :
            (Runs(p, "update_note") /\ \E n \in notes : n.id = req[p].note_id)
            => LET old == CHOOSE n \in notes : n.id = req[p].note_id
                   new == [id |-> old.id, video_id |-> old.video_id,
                           timestamp |-> old.timestamp,
                           note_text |-> req[p].note_text,
                           created_at |-> old.created_at]
               IN  /\ resp'[p] = Ok(new)
                   /\ notes' = (notes \ {old}) \cup {new}
       /\ \A n \in notes' :
            IF \E m \in notes : m.id = n.id
            THEN \E m \in notes : /\ m.id = n.id
                                  /\ m.video_id = n.video_id
                                  /\ m.timestamp = n.timestamp
                                  /\ m.created_at = n.created_at
            ELSE n.id = next_id /\ next_id' = next_id + 1
       /\ \A n \in notes : n.id < next_id
       /\ \A n, m \in notes' : n.id = m.id => n = m
       /\ next_id' >= next_id]_vars

\* update_note has returned a note whose text it changed, some time after the
\* note was created, and another note is in the store.
C4_Witness ==
    \E p \in Handlers :
        /\ Returned(p, "update_note")
        /\ resp[p].body \in notes
        /\ resp[p].body.note_text = req[p].note_text
        /\ resp[p].body.created_at < now
        /\ Cardinality(notes) = 2

\* C5: delete_note(id) and update_note(id, text) with an id that no stored
\* note has leave the stored notes as they were and never end in a success
\* response; the handler answers 404 (a storage failure is the one other
\* way the statement can end).
C5_NotFound ==
    [][\A p \in Handlers : \A op \in {"delete_note", "update_note"} :
         (/\ Executing(p, op)
          /\ pc'[p] = "release"
          /\ ~ \E n \in notes : n.id = req[p].note_id)
         => /\ notes' = notes
            /\ resp'[p].status # 200
            /\ Runs(p, op) => resp'[p] = NotFound /\ resp'[p].status = 404]_vars

\* delete_note of an id that was never handed out has answered 404 while the
\* store holds notes.
C5_Witness ==
    \E p \in Handlers :
        /\ pc[p] = "done"
        /\ req[p].op = "delete_note"
        /\ req[p].note_id >= next_id
        /\ resp[p] = NotFound
        /\ notes # {}

\* C6: delete_note(id) on an existing note answers with the success message
\* and removes that note and no other: no note with that id is in the store
\* afterwards, get_notes and search_notes do not return one, and every other
\* note is there unchanged.
C6_DeleteFrame ==
    [][\A p \in Handlers :
         (Runs(p, "delete_note") /\ \E n \in notes : n.id = req[p].note_id)
         => /\ resp'[p] = Ok("Note deleted successfully")
            /\ notes' = {n \in notes : n.id # req[p].note_id}
            /\ Cardinality(notes') = Cardinality(notes) - 1
            /\ \A tie \in Ties :
                 /\ \A v \in VideoIds :
                      \A n \in Range(SelectByVideo(v, tie)') :
                          n.id # req[p].note_id
                 /\ \A q \in Queries :
                      \A n \in Range(SelectByText(q, tie)') :
                          n.id # req[p].note_id]_vars

\* delete_note has removed one of two notes.
C6_Witness ==
    \E p \in Handlers :
        /\ Returned(p, "delete_note")
        /\ pc[p] = "release"
        /\ req[p].note_id < next_id
        /\ Cardinality(notes) = 1
        /\ \A n \in notes : n.id # req[p].note_id

\* C7: what get_recent_videos returns has at most 20 entries, one for each
\* of the (up to 20) videos it lists; an entry's note_count is the number of
\* stored notes of its video and its last_note_at the latest created_at
\* among them; the entries come latest first, and no video left out has a
\* later last_note_at than one that is listed.
C7_RecentVideos ==
    \A p \in Handlers :
        Returned(p, "get_recent_videos") =>
            LET b == resp[p].body
                NotesOf(v) == {n \in notes : n.video_id = v}
                Last(v) == SetMax({n.created_at : n \in NotesOf(v)})
                Listed == {b[i].video_id : i \in 1..Len(b)}
            IN  /\ Len(b) <= 20
                /\ Len(b) = IF Cardinality(VideosNoted) < 20
                            THEN Cardinality(VideosNoted) ELSE 20
                /\ Cardinality(Listed) = Len(b)
                /\ Listed \subseteq VideosNoted
                /\ \A i \in 1..Len(b) :
                     /\ b[i].note_count = Cardinality(NotesOf(b[i].video_id))
                     /\ b[i].last_note_at = Last(b[i].video_id)
                /\ \A i \in 1..(Len(b) - 1) :
                     b[i].last_note_at >= b[i + 1].last_note_at
                /\ \A v \in VideosNoted \ Listed : \A i \in 1..Len(b) :
                     Last(v) <= b[i].last_note_at

\* get_recent_videos has returned 20 of 21 videos, first the video with two
\* notes that was annotated again after the others.
C7_Witness ==
    \E p \in Handlers :
        /\ Returned(p, "get_recent_videos")
        /\ Cardinality(VideosNoted) = 21
        /\ Len(resp[p].body) = 20
        /\ resp[p].body[1].note_count = 2
        /\ resp[p].body[1].last_note_at > resp[p].body[20].last_note_at

\* C8: with DATABASE_URL absent, startup ends with an error, no pool is ever
\* created, the server never gets to serve, and no coroutine ever holds a
\* connection or runs a statement.
C8_NoUrlNoService ==
    DATABASE_URL = <<>> =>
        /\ phase # "serving"
        /\ db_pool = 0
        /\ pools_created = 0
        /\ holding = {}
        /\ table = [notes |-> FALSE, idx_video_id |-> FALSE]
        /\ pc[Startup] \in {"get_pool", "done"}
        /\ pc[Startup] = "done" =>
             phase = "failed" /\ resp[Startup] = ServerError("ValueError")
        /\ \A p \in Handlers : pc[p] = "idle"

\* startup has failed for want of DATABASE_URL.
C8_Witness ==
    /\ DATABASE_URL = <<>>
    /\ phase = "failed"
    /\ pc[Startup] = "done"

\* the coroutines that have started and not ended
InFlight == {p \in Procs : pc[p] \notin {"idle", "done"}}

\* C9: a coroutine holds a connection exactly from its acquire to its leaving
\* `async with`, however it leaves: whoever runs a statement or is about to
\* leave holds one, nobody else does, and a coroutine whose response is out
\* holds none.  So the connections out never outnumber the coroutines in
\* flight, and none is out when none is in flight.
C9_ScopedConnection ==
    /\ holding = {p \in Procs : pc[p] \in {"execute", "execute_index", "release"}}
    /\ \A p \in Procs : pc[p] = "done" => p \notin holding
    /\ Cardinality(holding) <= Cardinality(InFlight)
    /\ InFlight = {} => holding = {}

\* One handler has answered 404 and another has passed on a storage failure,
\* and no connection is out.
C9_Witness ==
    /\ \E p \in Handlers : pc[p] = "done" /\ resp[p] = NotFound
    /\ \E p \in Handlers :
         pc[p] = "done" /\ resp[p] = ServerError("PostgresError")
    /\ holding = {}
    /\ InFlight = {}

\* C10: create_pool is called at most once in the life of the process, and
\* every coroutine that got a pool from get_db_pool got that one.
C10_OnePool ==
    /\ pools_created <= 1
    /\ db_pool \in {0, 1}
    /\ \A p \in Procs : pool[p] # 0 => pool[p] = db_pool

\* Two handlers are past get_db_pool at the same time, with the same pool.
C10_Witness ==
    /\ pools_created = 1
    /\ \A p \in Handlers :
         pc[p] \in {"acquire", "execute", "release"} /\ pool[p] = db_pool

=============================================================================
